---------------------------- MODULE Spec2Model ----------------------------
(***************************************************************************)
(* Model of src/journal/journal-send.c: the shared journal socket          *)
(* (journal_fd) and the wire-format encoder and sender (sd_journal_sendv). *)
(* Every thread makes one call of sd_journal_sendv; the steps of a call    *)
(* that touch shared state (fd_plus_one, the descriptor table, the socket) *)
(* are separate actions so that calls interleave as threads do.            *)
(***************************************************************************)
EXTENDS Integers, Sequences, FiniteSets

(* ------------------------------ bounds -------------------------------- *)
NThreads == 2
MaxFieldLen == 3
MaxFields == 2
MaxArgs == 5

Threads == 1 .. NThreads

(* --------------------------- program constants ------------------------ *)
EINVAL == 22
ENOMEM == 12
EQ == 61
NL == 10
NUL == 0
LETTER == 77
SEGS_PER_FIELD == 5
LEN_BYTES == 8

(* errno values socket(2) and sendmsg(2) may leave: descriptor or buffer   *)
(* exhaustion, collector not listening, datagram too large                 *)
EMFILE == 24
ENOBUFS == 105
ECONNREFUSED == 111
EMSGSIZE == 90
EBADF == 9
SocketErrnos == {EMFILE, ENOBUFS}
SendErrnos == {ECONNREFUSED, EMSGSIZE}

(* ------------------------------ inputs -------------------------------- *)
Byte == {NUL, NL, EQ}

RECURSIVE SeqsUpTo(_, _)
SeqsUpTo(S, k) ==
    IF k = 0 THEN {<<>>}
    ELSE LET shorter == SeqsUpTo(S, k - 1)
         IN  shorter \cup {Append(s, b) : s \in {x \in shorter : Len(x) = k - 1}, b \in S}

RECURSIVE Pad(_, _)
Pad(b, k) == IF k = 0 THEN <<>> ELSE <<b>> \o Pad(b, k - 1)

(* fields of the documented shapes: a=b, a=b<NL>c, a<NL>b=c, novalue, and  *)
(* values whose length byte is itself a newline or an '='                  *)
ScenarioFields ==
    { <<LETTER, EQ, LETTER>>,
      <<LETTER, EQ, LETTER, NL, LETTER>>,
      <<LETTER, NL, LETTER, EQ, LETTER>>,
      <<LETTER, LETTER>>,
      <<LETTER, EQ, NL>> \o Pad(LETTER, NL - 1),
      <<LETTER, EQ, EQ, NL>> \o Pad(NUL, EQ - 2) }

Fields == SeqsUpTo(Byte, MaxFieldLen) \cup ScenarioFields

(* records of up to MaxFields fields: scenario fields, with any one field  *)
(* of Fields as the first or the last of them                              *)
Records ==
    LET few == SeqsUpTo(ScenarioFields, MaxFields - 1)
    IN  SeqsUpTo(ScenarioFields, MaxFields)
          \cup {<<f>> \o rest : f \in Fields, rest \in few}
          \cup {rest \o <<f>> : f \in Fields, rest \in few}

(* the records of the concurrent specification: a simple field, a          *)
(* binary-safe field after a simple one, a field without '=' and one with  *)
(* a newline before the '=' after a good one, and the empty list           *)
SmallRecords ==
    { << <<LETTER, EQ, LETTER>> >>,
      << <<LETTER, EQ, NUL>>, <<LETTER, EQ, NL, LETTER>> >>,
      << <<NUL, EQ>>, <<LETTER, LETTER>>, <<LETTER, EQ>> >>,
      << <<LETTER, EQ, NL>>, <<NL, EQ>> >>,
      << >> }

(* what the format strings of a sd_journal_send call expand to: a simple  *)
(* field, a field with a newline in its value, and one with a NUL byte    *)
(* (from %c) before its '='                                               *)
SendFields ==
    { <<LETTER, EQ, LETTER>>, <<LETTER, EQ, NL>>, <<LETTER, NUL, EQ>> }

SendInputs == SeqsUpTo(SendFields, MaxArgs)

(* ------------------------- descriptor table --------------------------- *)
MaxFd == NThreads + 3
FdNums == 0 .. MaxFd

StdFds == [k \in FdNums |-> IF k <= 2 THEN "other" ELSE "closed"]
NoStdin == [k \in FdNums |-> IF k \in {1, 2} THEN "other" ELSE "closed"]

VARIABLES
    fd_plus_one,   \* journal_fd's static int fd_plus_one
    fds,           \* the process's descriptor table: "closed", "other", "socket"
    created,       \* history: number of sockets journal_fd has created
    sent,          \* history: per calling thread, the datagrams it has sent
    pc,            \* per thread: position in sd_journal_sendv / journal_fd
    iov, n,        \* per thread: arguments of sd_journal_sendv
    i, j, w, l,    \* per thread: locals of sd_journal_sendv
    fd,            \* per thread: journal_fd's local fd
    rfd,           \* per thread: value journal_fd returned (sendv's local fd)
    r,             \* per thread: return value of sd_journal_sendv
    failed,        \* history: number of socket() calls that have failed
    late,          \* history: the journal_fd call started with the value published
    afterfail,     \* history: the journal_fd call started after a failed socket()
    nsock,         \* history: sockets created by this journal_fd call
    nretry,        \* history: times this journal_fd call took "goto retry"
    ncas,          \* history: compare-and-swaps this journal_fd call performed
    nsend,         \* history: sendmsg() calls this sd_journal_sendv call made
    iovnull,       \* per thread: sd_journal_sendv was passed iov == NULL
    via,           \* per thread: "direct", or "send" when sd_journal_send called
    format,        \* sd_journal_send: the fields still to format; << >> is NULL
    send_iov,      \* sd_journal_send: iov[0 .. i-1], each its block and its bytes
    send_arr,      \* sd_journal_send: the block iov points to, 0 for NULL
    send_n,        \* sd_journal_send: n
    send_i,        \* sd_journal_send: i
    send_r,        \* sd_journal_send: r, its return value
    heap,          \* per thread: the heap blocks it holds, not yet released
    nfree,         \* history: per block, how many times it was released
    nblk,          \* history: per thread, blocks allocated so far
    c_forked,      \* a child process has been forked
    c_fd_plus_one, \* the child's copy of fd_plus_one
    c_fds,         \* the child's descriptor table
    c_pc,          \* the child's position in journal_fd
    c_fd,          \* the child's journal_fd local fd
    c_rfd,         \* the value journal_fd returned in the child
    c_nsock,       \* history: sockets the child's journal_fd call created
    c_inherited    \* history: the value of fd_plus_one the child was forked with

(* the state of sd_journal_send and of a forked child *)
sendVars == <<via, format, send_iov, send_arr, send_n, send_i, send_r, heap, nfree, nblk>>
childVars ==
    <<c_forked, c_fd_plus_one, c_fds, c_pc, c_fd, c_rfd, c_nsock, c_inherited>>

vars == <<fd_plus_one, fds, created, sent, pc, iov, n, i, j, w, l, fd, rfd, r,
          failed, late, afterfail, nsock, nretry, ncas, nsend, iovnull,
          sendVars, childVars>>

NoValue == -1          \* a local not yet assigned (never read before it is)
UninitLen == << >>     \* a slot of l[] not yet written

(* ------------------------------ helpers ------------------------------- *)

(* memrchr in place of memchr: the last occurrence *)
Memchr_last(s, c) ==
    IF \E k \in 1 .. Len(s) : s[k] = c
    THEN CHOOSE k \in 1 .. Len(s) : s[k] = c /\ \A m \in (k + 1) .. Len(s) : s[m] # c
    ELSE 0

(* memchr(s, c, len): 1-based index of the first c in s, 0 for NULL *)
Memchr(s, c) ==
    IF \E k \in 1 .. Len(s) : s[k] = c
    THEN CHOOSE k \in 1 .. Len(s) : s[k] = c /\ \A m \in 1 .. (k - 1) : s[m] # c
    ELSE 0

RECURSIVE LEByte(_, _)
LEByte(x, k) == IF k = 0 THEN x % 256 ELSE LEByte(x \div 256, k - 1)

(* htobe64 in place of htole64 *)
htole64_be(x) == [k \in 1 .. LEN_BYTES |-> LEByte(x, LEN_BYTES - k)]

(* htole64(x) as the 8 bytes it leaves in memory *)
htole64(x) == [k \in 1 .. LEN_BYTES |-> LEByte(x, k - 1)]

(* a cached value of 1, descriptor 0, is taken for "no descriptor yet" *)
Published_offbyone(v) == v > 1

(* journal_fd, "if (fd_plus_one > 0)": the cached value is a descriptor *)
Published(v) == v > 0

(* the cached value handed out as it is *)
CachedFd_raw(v) == v

(* journal_fd, "return fd_plus_one - 1" *)
CachedFd(v) == v - 1

(* socket(2) hands out the lowest descriptor number not in use *)
LowestFree(tab) ==
    CHOOSE k \in FdNums : tab[k] = "closed" /\ \A m \in 0 .. (k - 1) : tab[m] # "closed"

(* a struct iovec of w: which buffer it points into, where, how long *)
Seg(base, idx, off, len) == [base |-> base, idx |-> idx, off |-> off, len |-> len]

(* IOVEC_SET_STRING(w[j], "\n") *)
NewlineSeg == Seg("nl", 0, 0, 1)

(* a slot of w[] not yet written *)
UninitSeg == Seg("uninit", 0, 0, 0)

(* the bytes an iovec of thread t's w refers to, given t's iov and l *)
SegBytes(s, fields, lens) ==
    IF s.base = "iov" THEN SubSeq(fields[s.idx + 1], s.off + 1, s.off + s.len)
    ELSE IF s.base = "l" THEN SubSeq(lens[s.idx], 1, s.len)
    ELSE <<NL>>

RECURSIVE Gather_droplast(_, _, _, _, _)
(* msg_iovlen one short: the last iovec is left out *)
Gather_droplast(ws, from, to, fields, lens) ==
    IF from >= to - 1 THEN <<>>
    ELSE SegBytes(ws[from], fields, lens) \o Gather_droplast(ws, from + 1, to, fields, lens)

RECURSIVE Gather(_, _, _, _, _)
(* the bytes of iovecs from .. to-1 of ws, in order: what sendmsg transmits *)
Gather(ws, from, to, fields, lens) ==
    IF from >= to THEN <<>>
    ELSE SegBytes(ws[from], fields, lens) \o Gather(ws, from + 1, to, fields, lens)

(* the loop without the final IOVEC_SET_STRING(w[j++], "\n") *)
EncodeField_nonewline(f, k) ==
    LET c  == Memchr(f, EQ)
        nl == Memchr(f, NL)
        vlen == Len(f) - (c - 1) - 1
    IN  IF c = 0 THEN [ok |-> FALSE, segs |-> <<>>, len |-> UninitLen]
        ELSE IF nl # 0
        THEN IF nl < c THEN [ok |-> FALSE, segs |-> <<>>, len |-> UninitLen]
             ELSE [ok |-> TRUE,
                   segs |-> << Seg("iov", k, 0, c - 1),
                               NewlineSeg,
                               Seg("l", k, 0, LEN_BYTES),
                               Seg("iov", k, c, vlen) >>,
                   len |-> htole64(vlen)]
        ELSE [ok |-> TRUE,
              segs |-> << Seg("iov", k, 0, Len(f)) >>,
              len |-> UninitLen]

(* the loop without the binary-safe branch: every field sent as one line *)
EncodeField_simpleonly(f, k) ==
    LET c  == Memchr(f, EQ)
        nl == Memchr(f, NL)
    IN  IF c = 0 \/ (nl # 0 /\ nl < c)
        THEN [ok |-> FALSE, segs |-> <<>>, len |-> UninitLen]
        ELSE [ok |-> TRUE,
              segs |-> << Seg("iov", k, 0, Len(f)), NewlineSeg >>,
              len |-> UninitLen]

(* the loop without the "if (nl < c) return -EINVAL" check *)
EncodeField_nonlcheck(f, k) ==
    LET c  == Memchr(f, EQ)
        nl == Memchr(f, NL)
        vlen == Len(f) - (c - 1) - 1
    IN  IF c = 0 THEN [ok |-> FALSE, segs |-> <<>>, len |-> UninitLen]
        ELSE IF nl # 0
        THEN [ok |-> TRUE,
              segs |-> << Seg("iov", k, 0, c - 1),
                          NewlineSeg,
                          Seg("l", k, 0, LEN_BYTES),
                          Seg("iov", k, c, vlen),
                          NewlineSeg >>,
              len |-> htole64(vlen)]
        ELSE [ok |-> TRUE,
              segs |-> << Seg("iov", k, 0, Len(f)), NewlineSeg >>,
              len |-> UninitLen]

(* the length is put after the value instead of before it *)
EncodeField_lenlast(f, k) ==
    LET c  == Memchr(f, EQ)
        nl == Memchr(f, NL)
        vlen == Len(f) - (c - 1) - 1
    IN  IF c = 0 THEN [ok |-> FALSE, segs |-> <<>>, len |-> UninitLen]
        ELSE IF nl # 0
        THEN IF nl < c THEN [ok |-> FALSE, segs |-> <<>>, len |-> UninitLen]
             ELSE [ok |-> TRUE,
                   segs |-> << Seg("iov", k, 0, c - 1),
                               NewlineSeg,
                               Seg("iov", k, c, vlen),
                               Seg("l", k, 0, LEN_BYTES),
                               NewlineSeg >>,
                   len |-> htole64(vlen)]
        ELSE [ok |-> TRUE,
              segs |-> << Seg("iov", k, 0, Len(f)), NewlineSeg >>,
              len |-> UninitLen]

(* the binary-safe form takes one iovec more than the five allotted *)
EncodeField_sixsegs(f, k) ==
    LET c  == Memchr(f, EQ)
        nl == Memchr(f, NL)
        vlen == Len(f) - (c - 1) - 1
    IN  IF c = 0 THEN [ok |-> FALSE, segs |-> <<>>, len |-> UninitLen]
        ELSE IF nl # 0
        THEN IF nl < c THEN [ok |-> FALSE, segs |-> <<>>, len |-> UninitLen]
             ELSE [ok |-> TRUE,
                   segs |-> << Seg("iov", k, 0, c - 1),
                               NewlineSeg,
                               Seg("l", k, 0, LEN_BYTES),
                               Seg("iov", k, c, vlen),
                               NewlineSeg,
                               NewlineSeg >>,
                   len |-> htole64(vlen)]
        ELSE [ok |-> TRUE,
              segs |-> << Seg("iov", k, 0, Len(f)), NewlineSeg >>,
              len |-> UninitLen]

(* one iteration of the for loop of sd_journal_sendv on field f = iov[k]:  *)
(* the iovecs it appends, the length slot it writes, or failure            *)
EncodeField(f, k) ==
    LET c  == Memchr(f, EQ)
        nl == Memchr(f, NL)
        vlen == Len(f) - (c - 1) - 1
    IN  IF c = 0 THEN [ok |-> FALSE, segs |-> <<>>, len |-> UninitLen]
        ELSE IF nl # 0
        THEN IF nl < c THEN [ok |-> FALSE, segs |-> <<>>, len |-> UninitLen]
             ELSE [ok |-> TRUE,
                   segs |-> << Seg("iov", k, 0, c - 1),
                               NewlineSeg,
                               Seg("l", k, 0, LEN_BYTES),
                               Seg("iov", k, c, vlen),
                               NewlineSeg >>,
                   len |-> htole64(vlen)]
        ELSE [ok |-> TRUE,
              segs |-> << Seg("iov", k, 0, Len(f)), NewlineSeg >>,
              len |-> UninitLen]

(* ------------------------------ initial state ------------------------- *)
InitLocals ==
    /\ fd_plus_one = 0
    /\ created = 0
    /\ sent = [t \in Threads |-> <<>>]
    /\ pc = [t \in Threads |-> "idle"]
    /\ iov = [t \in Threads |-> <<>>]
    /\ n = [t \in Threads |-> 0]
    /\ i = [t \in Threads |-> 0]
    /\ j = [t \in Threads |-> 0]
    /\ w = [t \in Threads |-> <<>>]
    /\ l = [t \in Threads |-> <<>>]
    /\ fd = [t \in Threads |-> NoValue]
    /\ rfd = [t \in Threads |-> NoValue]
    /\ r = [t \in Threads |-> NoValue]
    /\ failed = 0
    /\ late = [t \in Threads |-> FALSE]
    /\ afterfail = [t \in Threads |-> FALSE]
    /\ nsock = [t \in Threads |-> 0]
    /\ nretry = [t \in Threads |-> 0]
    /\ ncas = [t \in Threads |-> 0]
    /\ nsend = [t \in Threads |-> 0]
    /\ iovnull = [t \in Threads |-> FALSE]
    /\ via = [t \in Threads |-> "direct"]
    /\ format = [t \in Threads |-> <<>>]
    /\ send_iov = [t \in Threads |-> <<>>]
    /\ send_arr = [t \in Threads |-> 0]
    /\ send_n = [t \in Threads |-> 0]
    /\ send_i = [t \in Threads |-> 0]
    /\ send_r = [t \in Threads |-> NoValue]
    /\ heap = [t \in Threads |-> {}]
    /\ nfree = [t \in Threads |-> <<>>]
    /\ nblk = [t \in Threads |-> 0]
    /\ c_forked = FALSE
    /\ c_fd_plus_one = 0
    /\ c_fds = StdFds
    /\ c_pc = "none"
    /\ c_fd = NoValue
    /\ c_rfd = NoValue
    /\ c_nsock = 0
    /\ c_inherited = 0

Init == InitLocals /\ fds \in {StdFds, NoStdin}

InitEnc == InitLocals /\ fds = StdFds

(* ------------------------------ actions ------------------------------- *)

(* the arguments of a call: the fields behind iov (none when iov is NULL), *)
(* n, and whether iov is NULL                                              *)
Args(rec, cnt, null) == [iov |-> rec, n |-> cnt, null |-> null]

(* a well-formed call for each record of recs: iov non-null, n its length  *)
ArgsOf(recs) == {Args(rec, Len(rec), FALSE) : rec \in recs}

(* calls with a null iov, and with n zero or negative *)
BadArgs ==
    { Args(<<>>, 0, TRUE), Args(<<>>, 1, TRUE), Args(<<>>, 0, FALSE),
      Args(<< <<LETTER, EQ, LETTER>> >>, 0, FALSE),
      Args(<< <<LETTER, EQ, LETTER>> >>, -1, FALSE) }

(* the check accepts an empty list *)
ArgsInvalid_negative(null, cnt) == null \/ cnt < 0

(* sd_journal_sendv, "if (!iov || n <= 0)" *)
ArgsInvalid(null, cnt) == null \/ cnt <= 0

(* sd_journal_sendv entry with arguments a: the argument check and the    *)
(* two alloca()s                                                          *)
SendvEntry(t, a) ==
    /\ iov' = [iov EXCEPT ![t] = a.iov]
    /\ n' = [n EXCEPT ![t] = a.n]
    /\ iovnull' = [iovnull EXCEPT ![t] = a.null]
    /\ IF ArgsInvalid(a.null, a.n)
       THEN /\ r' = [r EXCEPT ![t] = -EINVAL]
            /\ pc' = [pc EXCEPT ![t] = "done"]
            /\ UNCHANGED <<w, l>>
       ELSE /\ w' = [w EXCEPT ![t] =
                      [k \in 0 .. (SEGS_PER_FIELD * a.n - 1) |-> UninitSeg]]
            /\ l' = [l EXCEPT ![t] = [k \in 0 .. (a.n - 1) |-> UninitLen]]
            /\ pc' = [pc EXCEPT ![t] = "loop"]
            /\ UNCHANGED r
    /\ i' = [i EXCEPT ![t] = 0]
    /\ j' = [j EXCEPT ![t] = 0]
    /\ UNCHANGED <<fd_plus_one, fds, created, sent, fd, rfd, failed, late, afterfail,
                   nsock, nretry, ncas, nsend, childVars>>

(* sd_journal_sendv called directly, with one of the argument lists of    *)
(* `inputs`                                                               *)
sd_journal_sendv(t, inputs) ==
    /\ pc[t] = "idle"
    /\ \E a \in inputs : SendvEntry(t, a)
    /\ UNCHANGED sendVars

(* one iteration of the for loop; after the last one, the call of journal_fd *)
sendv_field(t) ==
    /\ pc[t] = "loop"
    /\ i[t] < n[t]
    /\ LET e == EncodeField(iov[t][i[t] + 1], i[t])
       IN  IF ~e.ok
           THEN /\ r' = [r EXCEPT ![t] = -EINVAL]
                /\ pc' = [pc EXCEPT ![t] = "done"]
                /\ UNCHANGED <<i, j, w, l, late, afterfail>>
           ELSE /\ w' = [w EXCEPT ![t] =
                          [k \in DOMAIN w[t] |->
                             IF k >= j[t] /\ k < j[t] + Len(e.segs)
                             THEN e.segs[k - j[t] + 1] ELSE w[t][k]]]
                /\ j' = [j EXCEPT ![t] = j[t] + Len(e.segs)]
                /\ l' = [l EXCEPT ![t] =
                          IF e.len = UninitLen THEN l[t]
                          ELSE [l[t] EXCEPT ![i[t]] = e.len]]
                /\ i' = [i EXCEPT ![t] = i[t] + 1]
                /\ IF i[t] + 1 < n[t]
                   THEN UNCHANGED <<pc, late, afterfail>>
                   ELSE /\ pc' = [pc EXCEPT ![t] = "retry"]
                        /\ late' = [late EXCEPT ![t] = fd_plus_one > 0]
                        /\ afterfail' = [afterfail EXCEPT ![t] = failed > 0]
                /\ UNCHANGED r
    /\ UNCHANGED <<fd_plus_one, fds, created, sent, iov, n, fd, rfd, failed, nsock,
                   nretry>>
    /\ UNCHANGED <<ncas, nsend, iovnull, sendVars, childVars>>

(* journal_fd, label retry: the read of fd_plus_one *)
fd_retry(t) ==
    /\ pc[t] = "retry"
    /\ IF Published(fd_plus_one)
       THEN /\ rfd' = [rfd EXCEPT ![t] = CachedFd(fd_plus_one)]
            /\ pc' = [pc EXCEPT ![t] = "send"]
       ELSE /\ pc' = [pc EXCEPT ![t] = "socket"]
            /\ UNCHANGED rfd
    /\ UNCHANGED <<fd_plus_one, fds, created, sent, iov, n, i, j, w, l, fd, r,
                   failed, late, afterfail, nsock, nretry>>
    /\ UNCHANGED <<ncas, nsend, iovnull, sendVars, childVars>>

(* journal_fd: socket() succeeds *)
fd_socket(t) ==
    /\ pc[t] = "socket"
    /\ LET s == LowestFree(fds)
       IN  /\ fds' = [fds EXCEPT ![s] = "socket"]
           /\ fd' = [fd EXCEPT ![t] = s]
    /\ created' = created + 1
    /\ nsock' = [nsock EXCEPT ![t] = nsock[t] + 1]
    /\ pc' = [pc EXCEPT ![t] = "cas"]
    /\ UNCHANGED <<fd_plus_one, sent, iov, n, i, j, w, l, rfd, r, failed, late,
                   afterfail, nretry>>
    /\ UNCHANGED <<ncas, nsend, iovnull, sendVars, childVars>>

(* the failure is cached in fd_plus_one *)
SocketFailure_cached(cur, errno) == [val |-> -errno, ret |-> -errno]

(* journal_fd, "if (fd < 0) return -errno": what is left in fd_plus_one    *)
(* and what is returned                                                    *)
SocketFailure(cur, errno) == [val |-> cur, ret |-> -errno]

(* journal_fd: socket() fails, return -errno *)
fd_socket_fail(t) ==
    /\ pc[t] = "socket"
    /\ \E errno \in SocketErrnos :
          LET s == SocketFailure(fd_plus_one, errno)
          IN  /\ fd' = [fd EXCEPT ![t] = -1]
              /\ fd_plus_one' = s.val
              /\ rfd' = [rfd EXCEPT ![t] = s.ret]
    /\ failed' = failed + 1
    /\ pc' = [pc EXCEPT ![t] = "send"]
    /\ UNCHANGED <<fds, created, sent, iov, n, i, j, w, l, r, late, afterfail,
                   nsock, nretry>>
    /\ UNCHANGED <<ncas, nsend, iovnull, sendVars, childVars>>

(* a plain store in place of the compare-and-swap *)
CompareAndSwap_store(cur, old, new) == [val |-> new, ok |-> TRUE]

(* the descriptor itself is cached, not the descriptor plus one *)
CacheValue_raw(v) == v

(* journal_fd, "fd+1": what is cached for descriptor v, so that 0 can     *)
(* stand for "no descriptor yet"                                          *)
CacheValue(v) == v + 1

(* the swap compares with -1 in place of 0, so it never happens *)
CompareAndSwap_wrongold(cur, old, new) ==
    IF cur = -1 THEN [val |-> new, ok |-> TRUE] ELSE [val |-> cur, ok |-> FALSE]

(* __sync_bool_compare_and_swap(&fd_plus_one, 0, fd+1): the new value of   *)
(* fd_plus_one and whether the swap happened                               *)
CompareAndSwap(cur, old, new) ==
    IF cur = old THEN [val |-> new, ok |-> TRUE] ELSE [val |-> cur, ok |-> FALSE]

(* journal_fd: the compare-and-swap, and return fd when it wins *)
fd_cas(t) ==
    /\ pc[t] = "cas"
    /\ LET s == CompareAndSwap(fd_plus_one, 0, CacheValue(fd[t]))
       IN  /\ fd_plus_one' = s.val
           /\ IF s.ok
              THEN /\ rfd' = [rfd EXCEPT ![t] = fd[t]]
                   /\ pc' = [pc EXCEPT ![t] = "send"]
              ELSE /\ pc' = [pc EXCEPT ![t] = "close"]
                   /\ UNCHANGED rfd
    /\ ncas' = [ncas EXCEPT ![t] = ncas[t] + 1]
    /\ UNCHANGED <<fds, created, sent, iov, n, i, j, w, l, fd, r, failed, late,
                   afterfail, nsock, nretry>>
    /\ UNCHANGED <<nsend, iovnull, sendVars, childVars>>

(* the loser forgets to close its socket *)
close_nointr_nofail_leak(tab, k) == tab

(* the lowest-numbered socket is closed, whichever was passed *)
close_nointr_nofail_lowest(tab, k) ==
    [tab EXCEPT ![CHOOSE m \in FdNums :
                    tab[m] = "socket" /\ \A m2 \in 0 .. (m - 1) : tab[m2] # "socket"]
                 = "closed"]

(* close_nointr_nofail(fd): the descriptor table after the close *)
close_nointr_nofail(tab, k) == [tab EXCEPT ![k] = "closed"]

(* journal_fd: the loser's close_nointr_nofail(fd); goto retry *)
fd_close(t) ==
    /\ pc[t] = "close"
    /\ fds' = close_nointr_nofail(fds, fd[t])
    /\ nretry' = [nretry EXCEPT ![t] = nretry[t] + 1]
    /\ pc' = [pc EXCEPT ![t] = "retry"]
    /\ UNCHANGED <<fd_plus_one, created, sent, iov, n, i, j, w, l, fd, rfd, r,
                   failed, late, afterfail, nsock>>
    /\ UNCHANGED <<ncas, nsend, iovnull, sendVars, childVars>>

(* sd_journal_sendv after journal_fd returned: fd < 0, or sendmsg succeeds *)
sendv_sendmsg(t) ==
    /\ pc[t] = "send"
    /\ IF rfd[t] < 0
       THEN /\ r' = [r EXCEPT ![t] = rfd[t]]
            /\ UNCHANGED <<sent, nsend>>
       ELSE IF fds[rfd[t]] # "socket"
       THEN /\ r' = [r EXCEPT ![t] = -EBADF]
            /\ nsend' = [nsend EXCEPT ![t] = nsend[t] + 1]
            /\ UNCHANGED sent
       ELSE /\ sent' = [sent EXCEPT ![t] =
                          Append(sent[t], Gather(w[t], 0, j[t], iov[t], l[t]))]
            /\ nsend' = [nsend EXCEPT ![t] = nsend[t] + 1]
            /\ r' = [r EXCEPT ![t] = 0]
    /\ pc' = [pc EXCEPT ![t] = "done"]
    /\ UNCHANGED <<fd_plus_one, fds, created, iov, n, i, j, w, l, fd, rfd,
                   failed, late, afterfail, nsock, nretry>>
    /\ UNCHANGED <<ncas, iovnull, sendVars, childVars>>

(* sd_journal_sendv: sendmsg fails, return -errno *)
sendv_sendmsg_fail(t) ==
    /\ pc[t] = "send"
    /\ rfd[t] >= 0
    /\ fds[rfd[t]] = "socket"
    /\ \E errno \in SendErrnos : r' = [r EXCEPT ![t] = -errno]
    /\ nsend' = [nsend EXCEPT ![t] = nsend[t] + 1]
    /\ pc' = [pc EXCEPT ![t] = "done"]
    /\ UNCHANGED <<fd_plus_one, fds, created, sent, iov, n, i, j, w, l, fd, rfd,
                   failed, late, afterfail, nsock, nretry>>
    /\ UNCHANGED <<ncas, iovnull, sendVars, childVars>>

Next ==
    \E t \in Threads :
        \/ sd_journal_sendv(t, ArgsOf(SmallRecords))
        \/ sendv_field(t)
        \/ fd_retry(t)
        \/ fd_socket(t)
        \/ fd_socket_fail(t)
        \/ fd_cas(t)
        \/ fd_close(t)
        \/ sendv_sendmsg(t)
        \/ sendv_sendmsg_fail(t)

Spec == Init /\ [][Next]_vars

(* a single caller, over every record of the bounded input space *)
NextEnc ==
    \/ sd_journal_sendv(1, ArgsOf(Records))
    \/ sendv_field(1)
    \/ fd_retry(1)
    \/ fd_socket(1)
    \/ fd_socket_fail(1)
    \/ fd_cas(1)
    \/ sendv_sendmsg(1)
    \/ sendv_sendmsg_fail(1)

SpecEnc == InitEnc /\ [][NextEnc]_vars

(* --------------------------- sd_journal_send -------------------------- *)

(* strlen() as IOVEC_SET_STRING applies it: the bytes before the first NUL *)
CString(b) == SubSeq(b, 1, Memchr(b \o <<NUL>>, NUL) - 1)

(* MAX(i*2, 4) *)
GrownSize(k) == IF k * 2 > 4 THEN k * 2 ELSE 4

(* the release loop stops one buffer short *)
FreedBlocks_short(siov, cnt, arr) ==
    [k \in 1 .. (cnt - 1) |-> siov[k].base] \o (IF arr # 0 THEN <<arr>> ELSE <<>>)

(* label fail: the blocks free() is called on, in order: iov[j].iov_base  *)
(* for j < i, then iov unless it is NULL                                  *)
FreedBlocks(siov, cnt, arr) ==
    [k \in 1 .. cnt |-> siov[k].base] \o (IF arr # 0 THEN <<arr>> ELSE <<>>)

(* the release counts after free() of each block of the sequence bs *)
RECURSIVE Release(_, _)
Release(counts, bs) ==
    IF bs = <<>> THEN counts
    ELSE Release([counts EXCEPT ![Head(bs)] = counts[Head(bs)] + 1], Tail(bs))

(* the blocks of bs as a set *)
BlockSet(bs) == {bs[k] : k \in 1 .. Len(bs)}

(* sd_journal_send entry: va_start; the caller's format strings expand to *)
(* one of the records of `inputs`                                         *)
sd_journal_send(t, inputs) ==
    /\ pc[t] = "idle"
    /\ \E rec \in inputs : format' = [format EXCEPT ![t] = rec]
    /\ via' = [via EXCEPT ![t] = "send"]
    /\ send_iov' = [send_iov EXCEPT ![t] = <<>>]
    /\ send_arr' = [send_arr EXCEPT ![t] = 0]
    /\ send_n' = [send_n EXCEPT ![t] = 0]
    /\ send_i' = [send_i EXCEPT ![t] = 0]
    /\ pc' = [pc EXCEPT ![t] = "collect"]
    /\ UNCHANGED <<send_r, heap, nfree, nblk>>
    /\ UNCHANGED <<fd_plus_one, fds, created, sent, iov, n, i, j, w, l, fd, rfd, r,
                   failed, late, afterfail, nsock, nretry, ncas, nsend, iovnull,
                   childVars>>

(* realloc(iov, ...) succeeding when i >= n: a new block, the old one     *)
(* released by realloc; the heap, the counts and iov afterwards           *)
Realloc(t) ==
    IF send_i[t] >= send_n[t]
    THEN [arr |-> nblk[t] + 1,
          cap |-> GrownSize(send_i[t]),
          heap |-> (heap[t] \ {send_arr[t]}) \cup {nblk[t] + 1},
          nfree |-> Append(IF send_arr[t] # 0
                           THEN Release(nfree[t], <<send_arr[t]>>) ELSE nfree[t], 0),
          nblk |-> nblk[t] + 1]
    ELSE [arr |-> send_arr[t], cap |-> send_n[t], heap |-> heap[t],
          nfree |-> nfree[t], nblk |-> nblk[t]]

(* one iteration of the while loop with both allocations succeeding *)
send_collect(t) ==
    /\ pc[t] = "collect"
    /\ format[t] # <<>>
    /\ LET a == Realloc(t)
           buffer == a.nblk + 1
       IN  /\ send_arr' = [send_arr EXCEPT ![t] = a.arr]
           /\ send_n' = [send_n EXCEPT ![t] = a.cap]
           /\ heap' = [heap EXCEPT ![t] = a.heap \cup {buffer}]
           /\ nfree' = [nfree EXCEPT ![t] = Append(a.nfree, 0)]
           /\ nblk' = [nblk EXCEPT ![t] = buffer]
           /\ send_iov' = [send_iov EXCEPT ![t] =
                             Append(send_iov[t],
                                    [base |-> buffer, bytes |-> CString(Head(format[t]))])]
    /\ send_i' = [send_i EXCEPT ![t] = send_i[t] + 1]
    /\ format' = [format EXCEPT ![t] = Tail(format[t])]
    /\ UNCHANGED <<via, send_r, pc>>
    /\ UNCHANGED <<fd_plus_one, fds, created, sent, iov, n, i, j, w, l, fd, rfd, r,
                   failed, late, afterfail, nsock, nretry, ncas, nsend, iovnull,
                   childVars>>

(* the while loop: realloc() returns NULL, r = -ENOMEM, goto fail *)
send_realloc_fail(t) ==
    /\ pc[t] = "collect"
    /\ format[t] # <<>>
    /\ send_i[t] >= send_n[t]
    /\ send_n' = [send_n EXCEPT ![t] = GrownSize(send_i[t])]
    /\ send_r' = [send_r EXCEPT ![t] = -ENOMEM]
    /\ pc' = [pc EXCEPT ![t] = "fail"]
    /\ UNCHANGED <<via, format, send_iov, send_arr, send_i, heap, nfree, nblk>>
    /\ UNCHANGED <<fd_plus_one, fds, created, sent, iov, n, i, j, w, l, fd, rfd, r,
                   failed, late, afterfail, nsock, nretry, ncas, nsend, iovnull,
                   childVars>>

(* the while loop: vasprintf() fails, r = -ENOMEM, goto fail *)
send_vasprintf_fail(t) ==
    /\ pc[t] = "collect"
    /\ format[t] # <<>>
    /\ LET a == Realloc(t)
       IN  /\ send_arr' = [send_arr EXCEPT ![t] = a.arr]
           /\ send_n' = [send_n EXCEPT ![t] = a.cap]
           /\ heap' = [heap EXCEPT ![t] = a.heap]
           /\ nfree' = [nfree EXCEPT ![t] = a.nfree]
           /\ nblk' = [nblk EXCEPT ![t] = a.nblk]
    /\ send_r' = [send_r EXCEPT ![t] = -ENOMEM]
    /\ pc' = [pc EXCEPT ![t] = "fail"]
    /\ UNCHANGED <<via, format, send_iov, send_i>>
    /\ UNCHANGED <<fd_plus_one, fds, created, sent, iov, n, i, j, w, l, fd, rfd, r,
                   failed, late, afterfail, nsock, nretry, ncas, nsend, iovnull,
                   childVars>>

(* format is NULL: va_end, r = sd_journal_sendv(iov, i) *)
send_call(t) ==
    /\ pc[t] = "collect"
    /\ format[t] = <<>>
    /\ SendvEntry(t, Args([k \in 1 .. send_i[t] |-> send_iov[t][k].bytes],
                          send_i[t], send_arr[t] = 0))
    /\ UNCHANGED sendVars

(* label fail, reached from a goto or after sd_journal_sendv returned:    *)
(* free every iov[j].iov_base, free iov, return r                         *)
send_free(t) ==
    /\ \/ pc[t] = "fail"
       \/ pc[t] = "done" /\ via[t] = "send"
    /\ LET bs == FreedBlocks(send_iov[t], send_i[t], send_arr[t])
       IN  /\ heap' = [heap EXCEPT ![t] = heap[t] \ BlockSet(bs)]
           /\ nfree' = [nfree EXCEPT ![t] = Release(nfree[t], bs)]
    /\ send_r' = [send_r EXCEPT ![t] = IF pc[t] = "done" THEN r[t] ELSE send_r[t]]
    /\ pc' = [pc EXCEPT ![t] = "returned"]
    /\ UNCHANGED <<via, format, send_iov, send_arr, send_n, send_i, nblk>>
    /\ UNCHANGED <<fd_plus_one, fds, created, sent, iov, n, i, j, w, l, fd, rfd, r,
                   failed, late, afterfail, nsock, nretry, ncas, nsend, iovnull,
                   childVars>>

(* a single caller of sd_journal_send, or of sd_journal_sendv with a null *)
(* or empty list                                                          *)
NextSend ==
    \/ sd_journal_send(1, SendInputs)
    \/ send_collect(1)
    \/ send_realloc_fail(1)
    \/ send_vasprintf_fail(1)
    \/ send_call(1)
    \/ send_free(1)
    \/ sd_journal_sendv(1, BadArgs)
    \/ sendv_field(1)
    \/ fd_retry(1)
    \/ fd_socket(1)
    \/ fd_socket_fail(1)
    \/ fd_cas(1)
    \/ sendv_sendmsg(1)
    \/ sendv_sendmsg_fail(1)

SpecSend == InitEnc /\ [][NextSend]_vars

(* --------------------- journal_fd under fair scheduling ---------------- *)

(* the shortest record a call can send *)
ForkRecords == { << <<LETTER, EQ>> >> }

(* a step of thread t inside journal_fd *)
JournalFdStep(t) ==
    \/ fd_retry(t)
    \/ fd_socket(t)
    \/ fd_socket_fail(t)
    \/ fd_cas(t)
    \/ fd_close(t)

(* the threads calling sd_journal_sendv with the shortest record *)
NextFd ==
    \E t \in Threads :
        \/ sd_journal_sendv(t, ArgsOf(ForkRecords))
        \/ sendv_field(t)
        \/ fd_retry(t)
        \/ fd_socket(t)
        \/ fd_socket_fail(t)
        \/ fd_cas(t)
        \/ fd_close(t)
        \/ sendv_sendmsg(t)
        \/ sendv_sendmsg_fail(t)

(* every thread that is inside journal_fd is scheduled again: the calls   *)
(* are system calls and an atomic instruction, none of which waits for    *)
(* another thread                                                         *)
SpecFd == Init /\ [][NextFd]_vars /\ \A t \in Threads : WF_vars(JournalFdStep(t))

(* ------------------------- a forked child ----------------------------- *)

(* the process's threads other than the caller *)
parentVars ==
    <<fd_plus_one, fds, created, sent, pc, iov, n, i, j, w, l, fd, rfd, r,
      failed, late, afterfail, nsock, nretry, ncas, nsend, iovnull, sendVars>>

(* fork(): the child starts with a copy of the static fd_plus_one and of  *)
(* the descriptor table, and goes on to call journal_fd                   *)
fork ==
    /\ ~c_forked
    /\ c_forked' = TRUE
    /\ c_fd_plus_one' = fd_plus_one
    /\ c_inherited' = fd_plus_one
    /\ c_fds' = fds
    /\ c_pc' = "retry"
    /\ UNCHANGED <<c_fd, c_rfd, c_nsock>>
    /\ UNCHANGED parentVars

(* journal_fd in the child, label retry *)
child_fd_retry ==
    /\ c_pc = "retry"
    /\ IF Published(c_fd_plus_one)
       THEN /\ c_rfd' = CachedFd(c_fd_plus_one)
            /\ c_pc' = "returned"
       ELSE /\ c_pc' = "socket"
            /\ UNCHANGED c_rfd
    /\ UNCHANGED <<c_forked, c_fd_plus_one, c_fds, c_fd, c_nsock, c_inherited>>
    /\ UNCHANGED parentVars

(* journal_fd in the child: socket() succeeds *)
child_fd_socket ==
    /\ c_pc = "socket"
    /\ LET s == LowestFree(c_fds)
       IN  /\ c_fds' = [c_fds EXCEPT ![s] = "socket"]
           /\ c_fd' = s
    /\ c_nsock' = c_nsock + 1
    /\ c_pc' = "cas"
    /\ UNCHANGED <<c_forked, c_fd_plus_one, c_rfd, c_inherited>>
    /\ UNCHANGED parentVars

(* journal_fd in the child: socket() fails *)
child_fd_socket_fail ==
    /\ c_pc = "socket"
    /\ \E errno \in SocketErrnos :
          LET s == SocketFailure(c_fd_plus_one, errno)
          IN  /\ c_fd' = -1
              /\ c_fd_plus_one' = s.val
              /\ c_rfd' = s.ret
    /\ c_pc' = "returned"
    /\ UNCHANGED <<c_forked, c_fds, c_nsock, c_inherited>>
    /\ UNCHANGED parentVars

(* journal_fd in the child, which has the one thread that called fork():  *)
(* the compare-and-swap, then return fd, or close and goto retry          *)
child_fd_cas ==
    /\ c_pc = "cas"
    /\ LET s == CompareAndSwap(c_fd_plus_one, 0, CacheValue(c_fd))
       IN  /\ c_fd_plus_one' = s.val
           /\ IF s.ok
              THEN /\ c_rfd' = c_fd
                   /\ c_pc' = "returned"
                   /\ UNCHANGED c_fds
              ELSE /\ c_fds' = close_nointr_nofail(c_fds, c_fd)
                   /\ c_pc' = "retry"
                   /\ UNCHANGED c_rfd
    /\ UNCHANGED <<c_forked, c_fd, c_nsock, c_inherited>>
    /\ UNCHANGED parentVars

(* the threads of the process calling sd_journal_sendv, a fork() at any   *)
(* moment, and the child calling journal_fd                               *)
NextFork ==
    \/ \E t \in Threads :
          \/ sd_journal_sendv(t, ArgsOf(ForkRecords))
          \/ sendv_field(t)
          \/ fd_retry(t)
          \/ fd_socket(t)
          \/ fd_socket_fail(t)
          \/ fd_cas(t)
          \/ fd_close(t)
          \/ sendv_sendmsg(t)
          \/ sendv_sendmsg_fail(t)
    \/ fork
    \/ child_fd_retry
    \/ child_fd_socket
    \/ child_fd_socket_fail
    \/ child_fd_cas

SpecFork == Init /\ [][NextFork]_vars

(* ------------------------- claims: journal_fd ------------------------- *)

(* journal_fd has returned to thread t's sd_journal_sendv *)
Returned(t) == pc[t] \in {"send", "done"} /\ rfd[t] # NoValue

(* descriptors that are sockets created by journal_fd and still open *)
LiveSockets == {k \in FdNums : fds[k] = "socket"}

(* every caller has its result from journal_fd, and it is a descriptor *)
AllSucceeded == \A t \in Threads : Returned(t) /\ rfd[t] >= 0

(* C1: all calls of journal_fd that return a descriptor return the same   *)
(* one, the published one, under every interleaving.                      *)
C1_SameDescriptor ==
    \A t \in Threads : \A u \in Threads :
        (Returned(t) /\ Returned(u) /\ rfd[t] >= 0 /\ rfd[u] >= 0)
            => (rfd[t] = rfd[u] /\ rfd[t] = fd_plus_one - 1)

(* all callers returned a descriptor and one of them had lost the race *)
C1_Witness ==
    /\ AllSucceeded
    /\ \E t \in Threads : nretry[t] > 0

(* C2 as stated: once N concurrent calls have returned, exactly one       *)
(* socket has been created in total.                                      *)
C2_ExactlyOneCreated == AllSucceeded => created = 1

(* C2 amended: once the N calls have returned, between one and N sockets  *)
(* have been created, no call created more than one, and exactly one of   *)
(* them, the published one, is still open.                                *)
C2_OnePublishedOfCreated ==
    AllSucceeded =>
        /\ created >= 1
        /\ created <= NThreads
        /\ \A t \in Threads : nsock[t] <= 1
        /\ LiveSockets = {fd_plus_one - 1}

(* all calls returned and every caller had created a socket of its own *)
C2_Witness == AllSucceeded /\ created = NThreads

(* C3 as stated: at most one socket created by journal_fd is live in      *)
(* every reachable state.                                                 *)
C3_AtMostOneLive == Cardinality(LiveSockets) <= 1

(* threads that hold a socket they created and have neither published    *)
(* nor closed yet                                                         *)
Holding == {t \in Threads : pc[t] \in {"cas", "close"}}

(* C3 amended: the live sockets are exactly the published one, if any,    *)
(* and one per caller that is between its socket() and either winning the *)
(* compare-and-swap or closing the socket; so at most one is live when no *)
(* caller is in that window.                                              *)
C3_LiveArePublishedOrHeld ==
    /\ LiveSockets = (IF fd_plus_one > 0 THEN {fd_plus_one - 1} ELSE {})
                        \cup {fd[t] : t \in Holding}
    /\ \A t \in Holding : \A u \in Holding : fd[t] = fd[u] => t = u
    /\ \A t \in Holding : fd[t] # fd_plus_one - 1
    /\ Holding = {} => Cardinality(LiveSockets) <= 1

(* a loser is about to close while the winner's socket is published *)
C3_Witness ==
    /\ fd_plus_one > 0
    /\ \E t \in Threads : pc[t] = "close"
    /\ Cardinality(LiveSockets) = 2

(* C4: fd_plus_one changes only from 0 to a positive value, once; a call  *)
(* of journal_fd that starts after publication returns the published      *)
(* descriptor, creates no socket and does not fail.                       *)
C4_PublishedOnce ==
    [][ /\ fd_plus_one # 0 => fd_plus_one' = fd_plus_one
        /\ fd_plus_one' # fd_plus_one => fd_plus_one' > 0
        /\ \A t \in Threads :
              (late'[t] /\ pc'[t] \in {"socket", "cas", "close", "send", "done"})
                 => /\ Returned(t)'
                    /\ rfd'[t] = fd_plus_one' - 1
                    /\ rfd'[t] >= 0
                    /\ nsock'[t] = 0
                    /\ nretry'[t] = 0 ]_vars

(* a call that started after publication has returned, after another call *)
(* had published a descriptor it created                                  *)
C4_Witness ==
    \E t \in Threads : late[t] /\ Returned(t) /\ created = 1 /\ pc[t] = "done"

(* C5: a failing socket() makes journal_fd return the negated errno and   *)
(* leaves fd_plus_one and the descriptor table as they were; a call that  *)
(* then reads the unpublished state goes on to socket() again.            *)
C5_FailureNotCached ==
    [][ \A t \in Threads :
          /\ (pc[t] = "socket" /\ pc'[t] = "send")
                => /\ fd_plus_one' = fd_plus_one
                   /\ fds' = fds
                   /\ created' = created
                   /\ \E errno \in SocketErrnos : rfd'[t] = -errno
          /\ (pc[t] = "retry" /\ pc'[t] # "retry" /\ fd_plus_one = 0)
                => pc'[t] = "socket"
          /\ (pc[t] = "send" /\ pc'[t] = "done" /\ rfd[t] < 0)
                => (r'[t] = rfd[t] /\ sent' = sent) ]_vars

(* a call that started after another call's socket() had failed created   *)
(* the socket and published it                                            *)
C5_Witness ==
    \E t \in Threads : \E u \in Threads :
        /\ pc[t] = "done" /\ r[t] = -EMFILE
        /\ afterfail[u] /\ ~late[u] /\ Returned(u) /\ rfd[u] >= 0 /\ nsock[u] = 1
        /\ fd_plus_one = rfd[u] + 1

(* ----------------------- claims: the wire format ---------------------- *)

(* a field as the data model reads it: the name is what precedes the      *)
(* first '=', the value what follows it                                   *)
HasByte(s, b) == \E k \in 1 .. Len(s) : s[k] = b
EqAt(f) == CHOOSE k \in 1 .. Len(f) : f[k] = EQ /\ ~HasByte(SubSeq(f, 1, k - 1), EQ)
NameOf(f) == SubSeq(f, 1, EqAt(f) - 1)
ValueOf(f) == SubSeq(f, EqAt(f) + 1, Len(f))

(* no '=' at all, or a newline with no '=' before it *)
Malformed(f) ==
    \/ ~HasByte(f, EQ)
    \/ \E k \in 1 .. Len(f) : f[k] = NL /\ ~HasByte(SubSeq(f, 1, k - 1), EQ)

(* the number an 8-byte little-endian sequence holds; -1 when it does not *)
(* fit the model's integers                                               *)
LEValue(b) ==
    IF \E k \in 4 .. LEN_BYTES : b[k] # 0 THEN -1
    ELSE b[1] + 256 * b[2] + 65536 * b[3]

(* thread t's step is a loop iteration that accepted field iov[i] *)
Accepts(t) == pc[t] = "loop" /\ i'[t] = i[t] + 1

(* the bytes the iovecs added by thread t's step refer to *)
Emitted(t) == Gather(w'[t], j[t], j'[t], iov'[t], l'[t])

(* C6: an accepted field whose value holds no newline adds exactly its    *)
(* raw bytes NAME=VALUE and one newline to the message.                   *)
C6_SimpleField ==
    [][ \A t \in Threads :
          (Accepts(t) /\ ~HasByte(ValueOf(iov[t][i[t] + 1]), NL))
             => /\ Emitted(t) = iov[t][i[t] + 1] \o <<NL>>
                /\ Emitted(t) = NameOf(iov[t][i[t] + 1]) \o <<EQ>>
                                   \o ValueOf(iov[t][i[t] + 1]) \o <<NL>>
                /\ \A k \in 0 .. (j[t] - 1) : w'[t][k] = w[t][k]
                /\ \A k \in j'[t] .. (SEGS_PER_FIELD * n[t] - 1) : w'[t][k] = UninitSeg
      ]_vars

(* a call sent a record whose second field is simple with a non-empty     *)
(* value                                                                  *)
C6_Witness ==
    /\ pc[1] = "done" /\ r[1] = 0 /\ n[1] = 2
    /\ ~HasByte(iov[1][2], NL)
    /\ Len(ValueOf(iov[1][2])) > 0
    /\ Len(sent[1]) = 1

(* C7: an accepted field whose value holds a newline adds NAME, a         *)
(* newline, the value's length as 8 little-endian bytes, the value        *)
(* verbatim and a newline; the '=' is not sent.                           *)
C7_BinarySafeField ==
    [][ \A t \in Threads :
          (Accepts(t) /\ HasByte(ValueOf(iov[t][i[t] + 1]), NL))
             => LET f == iov[t][i[t] + 1]
                    e == Emitted(t)
                    nlen == Len(NameOf(f))
                    vlen == Len(ValueOf(f))
                IN  /\ Len(e) = nlen + 1 + LEN_BYTES + vlen + 1
                    /\ SubSeq(e, 1, nlen) = NameOf(f)
                    /\ e[nlen + 1] = NL
                    /\ LEValue(SubSeq(e, nlen + 2, nlen + 1 + LEN_BYTES)) = vlen
                    /\ \A k \in 1 .. LEN_BYTES : e[nlen + 1 + k] \in 0 .. 255
                    /\ SubSeq(e, nlen + 2 + LEN_BYTES, nlen + 1 + LEN_BYTES + vlen) = ValueOf(f)
                    /\ e[Len(e)] = NL
                    /\ \A k \in 0 .. (j[t] - 1) : w'[t][k] = w[t][k]
                    /\ \A k \in j'[t] .. (SEGS_PER_FIELD * n[t] - 1) : w'[t][k] = UninitSeg
      ]_vars

(* a call sent a record whose first field has a value of NL (ten) bytes   *)
(* with a newline in it, so that the length prefix holds a newline byte   *)
C7_Witness ==
    /\ pc[1] = "done" /\ r[1] = 0 /\ n[1] >= 1
    /\ HasByte(iov[1][1], EQ)
    /\ HasByte(ValueOf(iov[1][1]), NL)
    /\ Len(ValueOf(iov[1][1])) = NL
    /\ Len(sent[1]) = 1

(* the documented grammar, read back: a line with '=' is a simple field;  *)
(* a line without is a name, then 8 length bytes, the value, a newline    *)
RECURSIVE Parse(_)
Parse(b) ==
    IF b = <<>> THEN [ok |-> TRUE, fields |-> <<>>]
    ELSE IF ~HasByte(b, NL) THEN [ok |-> FALSE, fields |-> <<>>]
    ELSE
      LET p == CHOOSE k \in 1 .. Len(b) : b[k] = NL /\ ~HasByte(SubSeq(b, 1, k - 1), NL)
          line == SubSeq(b, 1, p - 1)
      IN  IF HasByte(line, EQ)
          THEN LET rest == Parse(SubSeq(b, p + 1, Len(b)))
               IN  [ok |-> rest.ok,
                    fields |-> << <<NameOf(line), ValueOf(line)>> >> \o rest.fields]
          ELSE IF Len(b) < p + LEN_BYTES THEN [ok |-> FALSE, fields |-> <<>>]
          ELSE
            LET vlen == LEValue(SubSeq(b, p + 1, p + LEN_BYTES))
                last == p + LEN_BYTES + vlen + 1
            IN  IF vlen < 0 \/ Len(b) < last THEN [ok |-> FALSE, fields |-> <<>>]
                ELSE IF b[last] # NL THEN [ok |-> FALSE, fields |-> <<>>]
                ELSE LET rest == Parse(SubSeq(b, last + 1, Len(b)))
                     IN  [ok |-> rest.ok,
                          fields |-> << <<line, SubSeq(b, p + LEN_BYTES + 1, last - 1)>> >>
                                        \o rest.fields]

(* C8: the datagram of an accepted record parses, by the documented       *)
(* grammar, to the record's names and values in order.                    *)
C8_RoundTrip ==
    \A t \in Threads :
        (pc[t] = "done" /\ r[t] = 0)
           => /\ Len(sent[t]) = 1
              /\ Parse(sent[t][1]).ok
              /\ Parse(sent[t][1]).fields =
                    [k \in 1 .. n[t] |-> <<NameOf(iov[t][k]), ValueOf(iov[t][k])>>]

(* a record of a simple field and a binary-safe field whose value holds   *)
(* a newline, a NUL and an '=' was sent                                   *)
C8_Witness ==
    /\ pc[1] = "done" /\ r[1] = 0 /\ n[1] = 2
    /\ ~HasByte(iov[1][1], NL)
    /\ HasByte(iov[1][2], NL) /\ HasByte(ValueOf(iov[1][2]), EQ)
    /\ HasByte(ValueOf(iov[1][2]), NUL)

(* C9: a field is rejected exactly when it holds no '=' or its first      *)
(* newline precedes its first '='; every other field is accepted.         *)
C9_RejectedIffMalformed ==
    \A t \in Threads :
        /\ \A k \in 1 .. i[t] : pc[t] # "idle" => ~Malformed(iov[t][k])
        /\ (pc[t] = "done" /\ n[t] > 0 /\ r[t] = -EINVAL)
              => (i[t] < n[t] /\ Malformed(iov[t][i[t] + 1]))
        /\ (pc[t] = "done" /\ n[t] > 0 /\ r[t] # -EINVAL) => i[t] = n[t]
        /\ pc[t] \in {"retry", "socket", "cas", "close", "send"} => i[t] = n[t]

(* a field with a newline after its '=' was accepted and the next field,  *)
(* with a newline before its '=', was rejected                            *)
C9_Witness ==
    /\ pc[1] = "done" /\ r[1] = -EINVAL /\ n[1] = 2 /\ i[1] = 1
    /\ HasByte(iov[1][1], NL)
    /\ HasByte(iov[1][2], EQ) /\ HasByte(iov[1][2], NL)

(* the 1-based position of the first malformed field of a record, 0 when  *)
(* every field is well-formed                                             *)
FirstMalformed(rec) ==
    IF \E k \in 1 .. Len(rec) : Malformed(rec[k])
    THEN CHOOSE k \in 1 .. Len(rec) :
            Malformed(rec[k]) /\ \A m \in 1 .. (k - 1) : ~Malformed(rec[m])
    ELSE 0

(* C10: a call whose record holds a malformed field returns -EINVAL at    *)
(* that field: journal_fd is not called, fd_plus_one and the descriptor   *)
(* table stay as they were, nothing is sent and no later field is         *)
(* examined.                                                              *)
C10_MalformedNoEffect ==
    [][ \A t \in Threads :
          (pc'[t] # "idle" /\ FirstMalformed(iov'[t]) > 0)
             => /\ pc'[t] \in {"loop", "done"}
                /\ i'[t] < FirstMalformed(iov'[t])
                /\ rfd'[t] = NoValue /\ fd'[t] = NoValue
                /\ nsock'[t] = 0 /\ sent'[t] = <<>>
                /\ pc'[t] = "done" =>
                      (r'[t] = -EINVAL /\ i'[t] = FirstMalformed(iov'[t]) - 1)
                /\ (pc[t] = "loop" /\ pc'[t] = "done")
                      => UNCHANGED <<fd_plus_one, fds, created, sent, failed>>
      ]_vars

(* a call failed at its second field after the descriptor had been        *)
(* published by another call                                              *)
C10_Witness ==
    \E t \in Threads :
        /\ pc[t] = "done" /\ r[t] = -EINVAL /\ i[t] = 1 /\ n[t] = 3
        /\ fd_plus_one > 0

(* ---------------------- claims: the whole call ------------------------ *)

(* thread t is inside sd_journal_sendv or has come back from it *)
SendvCalled(t) ==
    \/ pc[t] \in {"loop", "retry", "socket", "cas", "close", "send", "done"}
    \/ pc[t] = "returned" /\ format[t] = <<>>

(* the call made no request for the descriptor and put no bytes on the socket *)
NoEffect(t) ==
    /\ rfd[t] = NoValue
    /\ nsock[t] = 0
    /\ nsend[t] = 0
    /\ sent[t] = <<>>

(* C11: sd_journal_sendv with a null list or a count n <= 0, and          *)
(* sd_journal_send with no fields, fail with EINVAL straight away: the    *)
(* descriptor is not requested and nothing is sent.                       *)
C11_EmptyRejected ==
    \A t \in Threads :
        (SendvCalled(t) /\ (iovnull[t] \/ n[t] <= 0))
            => /\ pc[t] \in {"done", "returned"}
               /\ r[t] = -EINVAL
               /\ NoEffect(t)
               /\ pc[t] = "returned" => send_r[t] = -EINVAL

(* an empty sd_journal_send has returned, having passed a null array and  *)
(* a count of zero to sd_journal_sendv                                    *)
C11_Witness ==
    \E t \in Threads :
        /\ via[t] = "send"
        /\ pc[t] = "returned"
        /\ format[t] = <<>>
        /\ send_i[t] = 0
        /\ iovnull[t]
        /\ send_r[t] = -EINVAL

(* x as 8 little-endian bytes, by positional arithmetic; the lengths of  *)
(* the model fit the low three bytes                                      *)
LE64(x) ==
    [k \in 1 .. LEN_BYTES |-> IF k <= 3 THEN (x \div (256 ^ (k - 1))) % 256 ELSE 0]

(* the documented serialization of one well-formed field *)
FieldBytes(f) ==
    IF HasByte(ValueOf(f), NL)
    THEN NameOf(f) \o <<NL>> \o LE64(Len(ValueOf(f))) \o ValueOf(f) \o <<NL>>
    ELSE f \o <<NL>>

(* the serializations of the fields of a record one after the other *)
RECURSIVE RecordBytes(_)
RecordBytes(rec) ==
    IF rec = <<>> THEN <<>> ELSE FieldBytes(Head(rec)) \o RecordBytes(Tail(rec))

(* the values sendmsg can fail with, as sd_journal_sendv returns them *)
SendFailures == {-e : e \in SendErrnos}

(* C12: a call that returns 0 has transmitted exactly one datagram, which *)
(* holds all segments of the record; a call that returns an error has     *)
(* transmitted none; sendmsg is attempted at most once per call and its   *)
(* failure is returned as the negated OS error, without a retry.          *)
C12_OneDatagramOrNone ==
    \A t \in Threads :
        /\ nsend[t] <= 1
        /\ Len(sent[t]) <= 1
        /\ pc[t] # "done" => sent[t] = <<>>
        /\ pc[t] = "done" =>
             /\ r[t] <= 0
             /\ r[t] = 0 => (nsend[t] = 1 /\ sent[t] = << RecordBytes(iov[t]) >>)
             /\ r[t] < 0 => sent[t] = <<>>
             /\ r[t] \in SendFailures => nsend[t] = 1
             /\ (nsend[t] = 1 /\ sent[t] = <<>>) => r[t] \in SendFailures

(* one call sent its two-field record as one datagram, another call's     *)
(* single sendmsg failed and its error was returned                       *)
C12_Witness ==
    \E t \in Threads : \E u \in Threads :
        /\ pc[t] = "done" /\ r[t] = 0 /\ Len(iov[t]) = 2 /\ Len(sent[t]) = 1
        /\ pc[u] = "done" /\ r[u] = -ECONNREFUSED /\ nsend[u] = 1 /\ sent[u] = <<>>

(* ------------------------ claims: concurrency ------------------------- *)

(* the values journal_fd returns when socket() fails *)
SocketFailures == {-e : e \in SocketErrnos}

(* a record sd_journal_sendv accepts *)
WellFormed(rec) == rec # <<>> /\ \A k \in 1 .. Len(rec) : ~Malformed(rec[k])

(* some step of thread t's call *)
ThreadStep(t) ==
    \/ sendv_field(t)
    \/ fd_retry(t)
    \/ fd_socket(t)
    \/ fd_socket_fail(t)
    \/ fd_cas(t)
    \/ fd_close(t)
    \/ sendv_sendmsg(t)
    \/ sendv_sendmsg_fail(t)

(* thread u's view of its own call: arguments, position, arrays, results *)
CallState(u) ==
    <<pc[u], iov[u], n[u], i[u], j[u], w[u], l[u], fd[u], rfd[u], r[u], sent[u]>>

(* C13: with calls of sd_journal_sendv running concurrently, a step of    *)
(* one call changes nothing of another call but the cached descriptor; a  *)
(* call that is under way can always take its next step; a call with a    *)
(* well-formed record whose socket() and sendmsg do not fail returns 0;   *)
(* and the one datagram of a call is the complete encoding of that call's *)
(* own record.                                                            *)
C13_ConcurrentCalls ==
    /\ [](\A t \in Threads :
            /\ pc[t] \notin {"idle", "done"} => ENABLED ThreadStep(t)
            /\ (pc[t] = "done" /\ WellFormed(iov[t]) /\ n[t] = Len(iov[t])
                  /\ r[t] \notin SocketFailures /\ r[t] \notin SendFailures)
                 => r[t] = 0
            /\ sent[t] # <<>> => sent[t] = << RecordBytes(iov[t]) >>)
    /\ [][\A t \in Threads : \A u \in Threads \ {t} :
            ThreadStep(t) => CallState(u)' = CallState(u)]_vars

(* two calls raced for the descriptor, one lost and retried, and each has *)
(* sent its own record, the two records being different                   *)
C13_Witness ==
    \E t \in Threads : \E u \in Threads :
        /\ pc[t] = "done" /\ pc[u] = "done"
        /\ r[t] = 0 /\ r[u] = 0
        /\ nsock[t] = 1 /\ nsock[u] = 1
        /\ nretry[u] = 1
        /\ iov[t] # iov[u]
        /\ sent[t] = << RecordBytes(iov[t]) >>
        /\ sent[u] = << RecordBytes(iov[u]) >>
        /\ sent[t] # sent[u]

(* ------------------- claims: the assembled message -------------------- *)

(* the number of iovecs the documented form of field f takes *)
SegCount(f) == IF HasByte(ValueOf(f), NL) THEN SEGS_PER_FIELD ELSE 2

RECURSIVE SegTotal(_)
SegTotal(rec) == IF rec = <<>> THEN 0 ELSE SegCount(Head(rec)) + SegTotal(Tail(rec))

(* the fields the loop has accepted so far *)
Accepted(t) == SubSeq(iov[t], 1, i[t])

(* C14: the message is the in-order concatenation of the encodings of the *)
(* fields: after i fields were accepted the iovecs 0 .. j-1 refer to the  *)
(* encodings of fields 0 .. i-1 one after the other, each in the form     *)
(* that its own value calls for, whatever the other fields are.           *)
C14_InOrderConcatenation ==
    \A t \in Threads :
        /\ i[t] <= Len(iov[t])
        /\ Gather(w[t], 0, j[t], iov[t], l[t]) = RecordBytes(Accepted(t))
        /\ j[t] = SegTotal(Accepted(t))
        /\ sent[t] # <<>> => sent[t] = << RecordBytes(iov[t]) >>

(* a record of a binary-safe field followed by a different simple field   *)
(* was encoded in full                                                    *)
C14_Witness ==
    \E t \in Threads :
        /\ pc[t] = "retry"
        /\ Len(iov[t]) = 2 /\ i[t] = 2
        /\ iov[t][1] # iov[t][2]
        /\ HasByte(ValueOf(iov[t][1]), NL)
        /\ ~HasByte(ValueOf(iov[t][2]), NL)
        /\ j[t] = SEGS_PER_FIELD + 2

(* the slots of w that hold an iovec pointing at a length slot *)
LenSegs(t) == {k \in 0 .. (j[t] - 1) : k \in DOMAIN w[t] /\ w[t][k].base = "l"}

(* C15: the two arrays are never overrun. j stays within the 5*n slots of *)
(* w and i within the n slots of l; exactly the slots below j are         *)
(* written; an accepted field adds two iovecs in the simple form and five *)
(* in the binary-safe form; an iovec that points at a length slot points  *)
(* at the slot of its own field, which holds that field's value length;   *)
(* and a later field changes neither a written iovec nor a written length *)
(* slot.                                                                  *)
C15_ArraysInBounds ==
    /\ [](\A t \in Threads :
            w[t] # <<>> =>
              /\ j[t] >= 0 /\ j[t] <= SEGS_PER_FIELD * n[t]
              /\ i[t] >= 0 /\ i[t] <= n[t]
              /\ \A k \in DOMAIN w[t] : (w[t][k] = UninitSeg) <=> (k >= j[t])
              /\ \A m \in DOMAIN l[t] : m >= i[t] => l[t][m] = UninitLen
              /\ \A k \in LenSegs(t) :
                    /\ w[t][k].idx \in 0 .. (i[t] - 1)
                    /\ l[t][w[t][k].idx] = LE64(Len(ValueOf(iov[t][w[t][k].idx + 1])))
                    /\ \A k2 \in LenSegs(t) : k2 # k => w[t][k2].idx # w[t][k].idx)
    /\ [][\A t \in Threads :
            pc[t] = "loop" =>
              /\ Accepts(t) => j'[t] - j[t] = SegCount(iov[t][i[t] + 1])
              /\ \A k \in DOMAIN w[t] : k < j[t] => w'[t][k] = w[t][k]
              /\ \A m \in DOMAIN l[t] : l[t][m] # UninitLen => l'[t][m] = l[t][m]]_vars

(* two binary-safe fields filled all ten iovecs and both length slots *)
C15_Witness ==
    \E t \in Threads :
        /\ pc[t] = "retry"
        /\ n[t] = 2 /\ i[t] = 2
        /\ j[t] = SEGS_PER_FIELD * n[t]
        /\ l[t][0] # UninitLen /\ l[t][1] # UninitLen
        /\ l[t][0] # l[t][1]

(* ----------------------- claims: fork and reuse ----------------------- *)

(* some descriptor that was the published one before or after the step    *)
(* goes from open socket to closed in table tab                           *)
ClosesPublished(tab, tabAfter, v, vAfter) ==
    \E k \in FdNums :
        /\ tab[k] = "socket" /\ tabAfter[k] = "closed"
        /\ (v > 0 /\ k = v - 1) \/ (vAfter > 0 /\ k = vAfter - 1)

(* C16: a child forked after the descriptor was published starts with the *)
(* published state: journal_fd in the child returns the descriptor the    *)
(* parent published, without creating a socket; and no step of journal_fd *)
(* in either process closes a published descriptor, which stays an open   *)
(* socket.                                                                *)
C16_ChildInherits ==
    /\ []((c_forked /\ c_inherited > 0) =>
            /\ c_fd_plus_one = c_inherited
            /\ c_fd_plus_one = fd_plus_one
            /\ c_nsock = 0
            /\ c_pc \in {"retry", "returned"}
            /\ c_fds[c_inherited - 1] = "socket"
            /\ c_pc = "returned" => c_rfd = fd_plus_one - 1)
    /\ [](/\ fd_plus_one > 0 => fds[fd_plus_one - 1] = "socket"
          /\ c_fd_plus_one > 0 => c_fds[c_fd_plus_one - 1] = "socket")
    /\ [][/\ ~ClosesPublished(fds, fds', fd_plus_one, fd_plus_one')
          /\ ~ClosesPublished(c_fds, c_fds', c_fd_plus_one, c_fd_plus_one')]_vars

(* the parent published descriptor 0 after a race that a loser closed its *)
(* socket in, the child was forked afterwards and its journal_fd has      *)
(* returned descriptor 0                                                  *)
C16_Witness ==
    /\ c_forked /\ c_inherited = 1
    /\ c_pc = "returned" /\ c_rfd = 0 /\ c_nsock = 0
    /\ \E t \in Threads : nretry[t] = 1 /\ pc[t] = "done"

(* ----------------------- claims: sd_journal_send ---------------------- *)

(* the blocks sd_journal_send has obtained so far *)
Blocks(t) == 1 .. nblk[t]

(* C17: sd_journal_send releases what it allocated, on every path: no     *)
(* block is ever released twice, a block is live exactly while it has not *)
(* been released, and when the function has returned every field buffer   *)
(* and the field array have been released exactly once. When an           *)
(* allocation fails the result is -ENOMEM, sd_journal_sendv is not called *)
(* and nothing is sent; otherwise the result is sd_journal_sendv's.       *)
C17_BuffersReleased ==
    \A t \in Threads :
        /\ DOMAIN nfree[t] = Blocks(t)
        /\ \A b \in Blocks(t) : nfree[t][b] <= 1 /\ (b \in heap[t] <=> nfree[t][b] = 0)
        /\ pc[t] = "returned" =>
              /\ heap[t] = {}
              /\ \A b \in Blocks(t) : nfree[t][b] = 1
              /\ \A k \in 1 .. send_i[t] : send_iov[t][k].base \in Blocks(t)
              /\ send_i[t] > 0 => send_arr[t] \in Blocks(t)
              /\ send_r[t] = -ENOMEM <=> format[t] # <<>>
              /\ send_r[t] # -ENOMEM => send_r[t] = r[t]
        /\ (pc[t] \in {"fail", "returned"} /\ format[t] # <<>>) =>
              /\ send_r[t] = -ENOMEM
              /\ ~SendvCalled(t)
              /\ r[t] = NoValue
              /\ NoEffect(t)

(* the array was grown once, four buffers were collected, the second      *)
(* growth failed, and the function has returned with everything released  *)
C17_Witness ==
    \E t \in Threads :
        /\ via[t] = "send" /\ pc[t] = "returned"
        /\ send_r[t] = -ENOMEM
        /\ send_i[t] = 4 /\ send_n[t] = 8
        /\ nblk[t] = 5
        /\ heap[t] = {}

(* ------------------ claims: journal_fd, implicit ---------------------- *)

(* C18: every call of journal_fd terminates: a caller that lost the       *)
(* compare-and-swap goes back to the label retry at most once, since it   *)
(* finds a published descriptor there; a call creates at most one socket  *)
(* and does at most one compare-and-swap; and under fair scheduling a     *)
(* call that has reached journal_fd returns from it.                      *)
C18_JournalFdTerminates ==
    /\ [](\A t \in Threads :
            /\ nretry[t] <= 1
            /\ nsock[t] <= 1
            /\ ncas[t] <= 1
            /\ (pc[t] = "retry" /\ nretry[t] = 1) => fd_plus_one > 0
            /\ (pc[t] = "send" /\ nretry[t] = 1) => rfd[t] = fd_plus_one - 1)
    /\ \A t \in Threads : (pc[t] = "retry") ~> (pc[t] = "send")

(* a caller lost the compare-and-swap, went back once and has returned    *)
(* the winner's descriptor                                                *)
C18_Witness ==
    \E t \in Threads :
        /\ pc[t] = "send"
        /\ nretry[t] = 1 /\ nsock[t] = 1 /\ ncas[t] = 1
        /\ rfd[t] = fd_plus_one - 1
        /\ rfd[t] # fd[t]

(* thread t is between the entry of journal_fd and its return *)
InJournalFd(t) == pc[t] \in {"retry", "socket", "cas", "close"}

(* some call of journal_fd has returned a descriptor *)
SomeSucceeded == \E t \in Threads : Returned(t) /\ rfd[t] >= 0

(* C19: journal_fd never returns a closed descriptor: what a call returns *)
(* is an open socket and stays one; the loser's close changes only the    *)
(* loser's own descriptor, which is neither the published one nor one     *)
(* that a call has returned; and whenever no call is inside journal_fd,   *)
(* exactly one socket is open, the published one, if some call returned a *)
(* descriptor, and none is open if every call failed.                     *)
C19_NoClosedDescriptor ==
    /\ [](/\ \A t \in Threads :
               (Returned(t) /\ rfd[t] >= 0) => fds[rfd[t]] = "socket"
          /\ (\A t \in Threads : ~InJournalFd(t)) =>
               IF SomeSucceeded
               THEN LiveSockets = {fd_plus_one - 1} /\ Cardinality(LiveSockets) = 1
               ELSE LiveSockets = {} /\ fd_plus_one = 0)
    /\ [][\A t \in Threads : \A k \in FdNums :
            (pc[t] = "close" /\ pc'[t] # "close" /\ fds'[k] # fds[k]) =>
               /\ k = fd[t]
               /\ fds'[k] = "closed"
               /\ k # fd_plus_one - 1
               /\ \A u \in Threads : Returned(u) => rfd[u] # k]_vars

(* two calls raced, both created a socket, the loser closed its own, and  *)
(* both have returned the one socket still open                           *)
C19_Witness ==
    \E t \in Threads : \E u \in Threads :
        /\ t # u
        /\ pc[t] = "done" /\ pc[u] = "done"
        /\ r[t] = 0 /\ r[u] = 0
        /\ nsock[t] = 1 /\ nsock[u] = 1
        /\ fd[t] # fd[u]
        /\ rfd[t] = rfd[u]
        /\ fds[fd[u]] = "closed"
        /\ LiveSockets = {rfd[t]}

(* thread t's socket() returned descriptor 0 and t won the swap with it *)
WonWithZero(t) == fd[t] = 0 /\ ncas[t] = 1 /\ Returned(t) /\ rfd[t] = 0

(* C20: descriptor 0 is a descriptor like any other. The cache holds the  *)
(* descriptor plus one, so it is 0 only while nothing is published and is *)
(* never negative; when socket() returns 0 the winner publishes the value *)
(* 1 and returns 0; a call that finds a value published, 1 included,      *)
(* returns that descriptor without creating a socket; and what a call     *)
(* returns is negative only when its socket() failed.                     *)
C20_DescriptorZeroValid ==
    \A t \in Threads :
        /\ fd_plus_one >= 0
        /\ fd_plus_one = 0 <=> \A u \in Threads : ~(Returned(u) /\ rfd[u] >= 0)
        /\ WonWithZero(t) => fd_plus_one = 1
        /\ late[t] => (nsock[t] = 0 /\ ncas[t] = 0 /\ pc[t] \in {"retry", "send", "done"})
        /\ Returned(t) =>
             /\ rfd[t] >= 0 => (fd_plus_one = rfd[t] + 1 /\ fds[rfd[t]] = "socket")
             /\ rfd[t] < 0 => (rfd[t] \in SocketFailures /\ nsock[t] = 0)
        /\ (pc[t] = "done" /\ r[t] = 0) => rfd[t] >= 0

(* one call published descriptor 0, a later call found the value 1 and    *)
(* returned descriptor 0 without a socket of its own, and both have sent  *)
C20_Witness ==
    \E t \in Threads : \E u \in Threads :
        /\ WonWithZero(t)
        /\ fd_plus_one = 1
        /\ late[u] /\ nsock[u] = 0 /\ rfd[u] = 0
        /\ pc[t] = "done" /\ r[t] = 0
        /\ pc[u] = "done" /\ r[u] = 0

=============================================================================
